---- MODULE Spec2Model ----
(***************************************************************************)
(* Model of collager.py: Collager.collage, Collager.create_line and        *)
(* Collager.center_crop.  Images are modelled by their pixel dimensions,   *)
(* floats by exact rationals <<numerator, denominator>> in lowest terms.   *)
(***************************************************************************)
EXTENDS Integers, Sequences, FiniteSets, TLC

VARIABLES image_data, width, height, lines, ratio_delta,
          pc, error, line_height, collage, line_n,
          line_ratio, min_ratio, max_ratio,
          iters, selected_ratios, rejected, new_ratios,
          resized_images, img, crop_ratio, size, drift, line, result

vars == <<image_data, width, height, lines, ratio_delta,
          pc, error, line_height, collage, line_n,
          line_ratio, min_ratio, max_ratio,
          iters, selected_ratios, rejected, new_ratios,
          resized_images, img, crop_ratio, size, drift, line, result>>

(* ------------------------------ bounds -------------------------------- *)
MaxImageDim == 2
MaxCatalog == 2
MaxWidth == 2
MaxHeight == 3
MaxIters == 2
MaxCollageCatalog == 1
MaxCollageWidth == 2
MaxLines == 2

(* ----------------------- float arithmetic (exact) --------------------- *)
Abs(x) == IF x < 0 THEN -x ELSE x

RECURSIVE GCD(_, _)
GCD(a, b) == IF b = 0 THEN a ELSE GCD(b, a % b)

Norm(n, d) ==
    LET s == IF d < 0 THEN -1 ELSE 1
        g == GCD(Abs(n), Abs(d))
    IN  <<(s * n) \div g, (s * d) \div g>>

Rat(n, d) == Norm(n, d)
Float(n) == <<n, 1>>
RAdd(a, b) == Norm(a[1] * b[2] + b[1] * a[2], a[2] * b[2])
RSub(a, b) == Norm(a[1] * b[2] - b[1] * a[2], a[2] * b[2])
RMul(a, b) == Norm(a[1] * b[1], a[2] * b[2])
RDiv(a, b) == Norm(a[1] * b[2], a[2] * b[1])
RLt(a, b) == a[1] * b[2] < b[1] * a[2]
RLeq(a, b) == a[1] * b[2] <= b[1] * a[2]

(* Python round(): nearest integer, ties to the even neighbour *)
Round(x) ==
    LET f == x[1] \div x[2]
        r == x[1] % x[2]
    IN  IF 2 * r < x[2] THEN f
        ELSE IF 2 * r > x[2] THEN f + 1
        ELSE IF f % 2 = 0 THEN f ELSE f + 1

(* ------------------------------ inputs -------------------------------- *)
Dims == 1..MaxImageDim
Files == Dims \X Dims
(* get_aspect_ratios: one record per readable file *)
Record(f) == [path |-> f, ratio |-> Rat(f[1], f[2])]
(* image_data is only ever indexed by choice(), so catalogs are listed up  *)
(* to reordering: entries in non-decreasing file order                     *)
FileOrder(f) == f[1] * (MaxImageDim + 1) + f[2]
Catalogs(maxLen) ==
    {c \in UNION {[1..n -> {Record(f) : f \in Files}] : n \in 0..maxLen} :
        \A i \in 1..Len(c) : \A j \in i..Len(c) :
            FileOrder(c[i].path) <= FileOrder(c[j].path)}
Tolerances == {Rat(0, 1), Rat(1, 20), Rat(9, 10)}

RECURSIVE sum_ratios(_)
sum_ratios(items) ==
    IF items = <<>> THEN Float(0)
    ELSE RAdd(sum_ratios(SubSeq(items, 1, Len(items) - 1)),
              items[Len(items)].ratio)

RECURSIVE SumSeq(_)
SumSeq(s) ==
    IF s = <<>> THEN Float(0)
    ELSE RAdd(SumSeq(SubSeq(s, 1, Len(s) - 1)), s[Len(s)])

RECURSIVE SumWidth(_)
SumWidth(s) ==
    IF s = <<>> THEN 0 ELSE SumWidth(SubSeq(s, 1, Len(s) - 1)) + s[Len(s)][1]

None == <<>>

(* collage(width, height, 1, ratio_delta): one call of create_line with    *)
(* line_height = height                                                    *)
Init ==
    /\ image_data \in Catalogs(MaxCatalog)
    /\ width \in 1..MaxWidth
    /\ height \in 1..MaxHeight
    /\ lines = 1
    /\ ratio_delta \in Tolerances
    /\ pc = "collage"
    /\ error = "none"
    /\ line_height = 0
    /\ collage = None
    /\ line_n = 0
    /\ line_ratio = None
    /\ min_ratio = None
    /\ max_ratio = None
    /\ iters = 0
    /\ selected_ratios = <<>>
    /\ rejected = 0
    /\ new_ratios = <<>>
    /\ resized_images = <<>>
    /\ img = None
    /\ crop_ratio = None
    /\ size = None
    /\ drift = FALSE
    /\ line = None
    /\ result = None

(* collage(): lines 201-203 *)
Collage ==
    /\ pc = "collage"
    /\ line_height' = height \div lines
    /\ collage' = <<width, (height \div lines) * lines>>
    /\ line_n' = 0
    /\ pc' = "lines"
    /\ UNCHANGED <<image_data, width, height, lines, ratio_delta, error,
                   line_ratio, min_ratio, max_ratio, iters, selected_ratios,
                   rejected, new_ratios, resized_images, img, crop_ratio,
                   size, drift, line, result>>

inputs == <<image_data, width, height, lines, ratio_delta>>

(* create_line(): lines 134-141, reached from the for loop of collage() *)
CreateLine ==
    /\ pc = "lines"
    /\ line_n < lines
    /\ IF line_height = 0
       THEN /\ pc' = "raised"
            /\ error' = "ZeroDivisionError"
            /\ UNCHANGED <<line_ratio, min_ratio, max_ratio>>
       ELSE LET height_shift == RMul(ratio_delta, Float(line_height))
            IN  /\ line_ratio' = RDiv(Float(width), Float(line_height))
                /\ min_ratio' = RDiv(Float(width),
                                     RAdd(Float(line_height), height_shift))
                /\ max_ratio' = RDiv(Float(width),
                                     RSub(Float(line_height), height_shift))
                /\ pc' = "outer"
                /\ UNCHANGED error
    /\ iters' = 0
    /\ selected_ratios' = <<>>
    /\ rejected' = 0
    /\ new_ratios' = <<>>
    /\ resized_images' = <<>>
    /\ UNCHANGED <<inputs, line_height, collage, line_n, img, crop_ratio,
                   size, drift, line, result>>

(* line 142-143: while selected_ratios == []: iters += 1 *)
NextIters(i) == i + 1

OuterLoop ==
    /\ pc = "outer"
    /\ IF selected_ratios = <<>>
       THEN /\ iters < MaxIters
            /\ iters' = NextIters(iters)
            /\ pc' = "inner"
       ELSE /\ pc' = "correct"
            /\ UNCHANGED iters
    /\ UNCHANGED <<inputs, error, line_height, collage, line_n, line_ratio,
                   min_ratio, max_ratio, selected_ratios, rejected,
                   new_ratios, resized_images, img, crop_ratio, size,
                   drift, line, result>>

(* variant: the loop test written with <= *)
BelowMinOrEqual(items, lo) == RLeq(sum_ratios(items), lo)

(* line 144: sum_ratios(selected_ratios) < min_ratio *)
BelowMin(items, lo) == RLt(sum_ratios(items), lo)

(* variant: the attempt counter advanced on every draw *)
DrawCounting ==
    /\ pc = "inner"
    /\ BelowMin(selected_ratios, min_ratio)
    /\ image_data # <<>>
    /\ \E k \in 1..Len(image_data) :
          selected_ratios' = Append(selected_ratios, image_data[k])
    /\ iters' = iters + 1
    /\ UNCHANGED <<inputs, pc, error, line_height, collage, line_n,
                   line_ratio, min_ratio, max_ratio, rejected,
                   new_ratios, resized_images, img, crop_ratio, size,
                   drift, line, result>>

(* variant: two entries appended per loop pass *)
DrawTwo ==
    /\ pc = "inner"
    /\ BelowMin(selected_ratios, min_ratio)
    /\ image_data # <<>>
    /\ \E k, m \in 1..Len(image_data) :
          selected_ratios' = selected_ratios \o <<image_data[k], image_data[m]>>
    /\ UNCHANGED <<inputs, pc, error, line_height, collage, line_n,
                   line_ratio, min_ratio, max_ratio, iters, rejected,
                   new_ratios, resized_images, img, crop_ratio, size,
                   drift, line, result>>

(* line 145: selected_ratios.append(choice(image_data)) *)
Draw ==
    /\ pc = "inner"
    /\ BelowMin(selected_ratios, min_ratio)
    /\ image_data # <<>>
    /\ \E k \in 1..Len(image_data) :
          selected_ratios' = Append(selected_ratios, image_data[k])
    /\ UNCHANGED <<inputs, pc, error, line_height, collage, line_n,
                   line_ratio, min_ratio, max_ratio, iters, rejected,
                   new_ratios, resized_images, img, crop_ratio, size,
                   drift, line, result>>

(* variant: the failed draw is swallowed and the attempt restarted *)
DrawEmptyRetry ==
    /\ pc = "inner"
    /\ BelowMin(selected_ratios, min_ratio)
    /\ image_data = <<>>
    /\ pc' = "outer"
    /\ UNCHANGED <<inputs, error, line_height, collage, line_n, line_ratio,
                   min_ratio, max_ratio, iters, selected_ratios, rejected,
                   new_ratios, resized_images, img, crop_ratio, size,
                   drift, line, result>>

(* line 145: random.choice raises IndexError on an empty sequence *)
DrawEmpty ==
    /\ pc = "inner"
    /\ BelowMin(selected_ratios, min_ratio)
    /\ image_data = <<>>
    /\ pc' = "raised"
    /\ error' = "IndexError"
    /\ UNCHANGED <<inputs, line_height, collage, line_n, line_ratio,
                   min_ratio, max_ratio, iters, selected_ratios, rejected,
                   new_ratios, resized_images, img, crop_ratio, size,
                   drift, line, result>>

(* variant: the rejection test with the comparison reversed *)
AboveMaxReversed(items, hi) == RLt(sum_ratios(items), hi)

(* line 153: sum_ratios(selected_ratios) > max_ratio *)
AboveMax(items, hi) == RLt(hi, sum_ratios(items))

(* variant: a rejected selection is counted but not cleared *)
TestKeeps ==
    /\ pc = "inner"
    /\ ~BelowMin(selected_ratios, min_ratio)
    /\ IF AboveMax(selected_ratios, max_ratio)
       THEN /\ rejected' = rejected + 1
            /\ UNCHANGED selected_ratios
       ELSE UNCHANGED <<selected_ratios, rejected>>
    /\ pc' = "outer"
    /\ UNCHANGED <<inputs, error, line_height, collage, line_n, line_ratio,
                   min_ratio, max_ratio, iters, new_ratios, resized_images,
                   img, crop_ratio, size, drift, line, result>>

(* lines 144, 153-154: inner loop exit, then the rejection test *)
Test ==
    /\ pc = "inner"
    /\ ~BelowMin(selected_ratios, min_ratio)
    /\ IF AboveMax(selected_ratios, max_ratio)
       THEN /\ selected_ratios' = <<>>
            /\ rejected' = rejected + 1
       ELSE UNCHANGED <<selected_ratios, rejected>>
    /\ pc' = "outer"
    /\ UNCHANGED <<inputs, error, line_height, collage, line_n, line_ratio,
                   min_ratio, max_ratio, iters, new_ratios, resized_images,
                   img, crop_ratio, size, drift, line, result>>

(* variant: the residual spread without the member's own weight *)
NewRatioUnweighted(r, delta, curr_ratio) == RAdd(r, RDiv(delta, curr_ratio))

(* line 161: item["ratio"] + ratio_delta * item["ratio"] / curr_ratio *)
NewRatio(r, delta, curr_ratio) == RAdd(r, RDiv(RMul(delta, r), curr_ratio))

(* lines 156-163 *)
Correct ==
    /\ pc = "correct"
    /\ LET curr_ratio == sum_ratios(selected_ratios)
           delta == RSub(line_ratio, curr_ratio)
       IN  new_ratios' = [i \in 1..Len(selected_ratios) |->
                            NewRatio(selected_ratios[i].ratio, delta, curr_ratio)]
    /\ pc' = "crop"
    /\ UNCHANGED <<inputs, error, line_height, collage, line_n, line_ratio,
                   min_ratio, max_ratio, iters, selected_ratios, rejected,
                   resized_images, img, crop_ratio, size, drift, line,
                   result>>

(* variant: truncation instead of rounding *)
CropWidthTruncated(h, cr) == RMul(Float(h), cr)[1] \div RMul(Float(h), cr)[2]

(* line 107: width = round(height * crop_ratio) *)
CropWidth(h, cr) == Round(RMul(Float(h), cr))

(* lines 108-115: the crop box (left, upper, right, lower) *)
CropBox(im, cr) ==
    IF RLt(cr, RDiv(Float(im[1]), Float(im[2])))
    THEN LET offset == Round(RDiv(RSub(Float(im[1]), RMul(cr, Float(im[2]))),
                                  Float(2)))
         IN  <<offset, 0, im[1] - offset, im[2]>>
    ELSE LET offset == Round(RDiv(RSub(Float(im[2]), RDiv(Float(im[1]), cr)),
                                  Float(2)))
         IN  <<0, offset, im[1], im[2] - offset>>

(* line 122: outcomes of img.crop(size).resize((width, height)).  crop     *)
(* rejects a box whose right/lower edge precedes its left/upper edge,      *)
(* resize rejects a target smaller than 1x1; resampling an empty region is *)
(* left open.                                                              *)
CropOutcomes(box, w, h) ==
    IF box[3] < box[1] \/ box[4] < box[2] \/ w < 1 \/ h < 1
    THEN {"ValueError"}
    ELSE IF box[3] = box[1] \/ box[4] = box[2]
    THEN {"ok", "ValueError"}
    ELSE {"ok"}

(* lines 168-172: one iteration of the crop loop, with center_crop inlined *)
CenterCrop ==
    /\ pc = "crop"
    /\ Len(resized_images) < Len(selected_ratios)
    /\ LET i == Len(resized_images) + 1
           im == selected_ratios[i].path
           cr == new_ratios[i]
           w == CropWidth(line_height, cr)
           box == CropBox(im, cr)
       IN  /\ img' = im
           /\ crop_ratio' = cr
           /\ size' = box
           /\ \E o \in CropOutcomes(box, w, line_height) :
                IF o = "ok"
                THEN /\ resized_images' = Append(resized_images, <<w, line_height>>)
                     /\ UNCHANGED <<pc, error>>
                ELSE /\ pc' = "raised"
                     /\ error' = o
                     /\ UNCHANGED resized_images
    /\ UNCHANGED <<inputs, line_height, collage, line_n, line_ratio,
                   min_ratio, max_ratio, iters, selected_ratios, rejected,
                   new_ratios, drift, line, result>>

(* variant: the stacked image returned without the final resize *)
ResizedSkipped(im, w, h) == im

(* lines 185, 216: Image.resize((width, height)) *)
Resized(im, w, h) == <<w, h>>

(* lines 175-185 and 207-211: composite the strip, resize it to the line   *)
(* size and return it with iters; collage() pastes the strip.  The other   *)
(* locals of create_line end with the call.  drift records whether some    *)
(* strip was composited at a width other than the line width.              *)
Compose ==
    /\ pc = "crop"
    /\ Len(resized_images) = Len(selected_ratios)
    /\ LET sum_width == SumWidth(resized_images)
       IN  /\ drift' = (drift \/ sum_width # width)
           /\ line' = Resized(<<sum_width, line_height>>, width, line_height)
    /\ selected_ratios' = <<>>
    /\ new_ratios' = <<>>
    /\ resized_images' = <<>>
    /\ img' = None
    /\ crop_ratio' = None
    /\ size' = None
    /\ line_n' = line_n + 1
    /\ pc' = "lines"
    /\ UNCHANGED <<inputs, error, line_height, collage, line_ratio,
                   min_ratio, max_ratio, iters, rejected, result>>

Return ==
    /\ pc = "lines"
    /\ line_n = lines
    /\ result' = Resized(collage, width, height)
    /\ pc' = "done"
    /\ UNCHANGED <<inputs, error, line_height, collage, line_n, line_ratio,
                   min_ratio, max_ratio, iters, selected_ratios, rejected,
                   new_ratios, resized_images, img, crop_ratio, size,
                   drift, line>>

Next ==
    \/ Collage
    \/ CreateLine
    \/ OuterLoop
    \/ Draw
    \/ DrawEmpty
    \/ Test
    \/ Correct
    \/ CenterCrop
    \/ Compose
    \/ Return

Spec == Init /\ [][Next]_vars

(* ---------------- collage with several lines --------------------------- *)
InitCollage ==
    /\ image_data \in Catalogs(MaxCollageCatalog)
    /\ width \in 1..MaxCollageWidth
    /\ height \in 1..MaxHeight
    /\ lines \in 1..MaxLines
    /\ ratio_delta \in Tolerances
    /\ pc = "collage"
    /\ error = "none"
    /\ line_height = 0
    /\ collage = None
    /\ line_n = 0
    /\ line_ratio = None
    /\ min_ratio = None
    /\ max_ratio = None
    /\ iters = 0
    /\ selected_ratios = <<>>
    /\ rejected = 0
    /\ new_ratios = <<>>
    /\ resized_images = <<>>
    /\ img = None
    /\ crop_ratio = None
    /\ size = None
    /\ drift = FALSE
    /\ line = None
    /\ result = None

SpecCollage == InitCollage /\ [][Next]_vars

(* ---------------- center_crop called on its own ----------------------- *)
MaxRatioTerm == 4
CropRatios == {Rat(n, d) : n \in 1..MaxRatioTerm, d \in 1..MaxRatioTerm}

InitCrop ==
    /\ image_data = <<>>
    /\ width = 1
    /\ height = 1
    /\ lines = 1
    /\ ratio_delta = Rat(1, 20)
    /\ pc = "center_crop"
    /\ error = "none"
    /\ line_height \in 1..MaxHeight
    /\ collage = None
    /\ line_n = 0
    /\ line_ratio = None
    /\ min_ratio = None
    /\ max_ratio = None
    /\ iters = 0
    /\ selected_ratios = <<>>
    /\ rejected = 0
    /\ new_ratios = <<>>
    /\ resized_images = <<>>
    /\ img \in Files
    /\ crop_ratio \in CropRatios
    /\ size = None
    /\ drift = FALSE
    /\ line = None
    /\ result = None

(* center_crop(img, height, crop_ratio, scale_method): lines 106-122 *)
CenterCropCall ==
    /\ pc = "center_crop"
    /\ LET w == CropWidth(line_height, crop_ratio)
           box == CropBox(img, crop_ratio)
       IN  /\ size' = box
           /\ \E o \in CropOutcomes(box, w, line_height) :
                IF o = "ok"
                THEN /\ resized_images' = <<<<w, line_height>>>>
                     /\ pc' = "returned"
                     /\ UNCHANGED error
                ELSE /\ pc' = "raised"
                     /\ error' = o
                     /\ UNCHANGED resized_images
    /\ UNCHANGED <<inputs, line_height, collage, line_n, line_ratio,
                   min_ratio, max_ratio, iters, selected_ratios, rejected,
                   new_ratios, img, crop_ratio, drift, line, result>>

NextCrop == CenterCropCall

SpecCrop == InitCrop /\ [][NextCrop]_vars

(* ------------------------------ claims -------------------------------- *)
InLine == pc \in {"outer", "inner", "correct", "crop"}
Accepted == pc \in {"correct", "crop"}

(* the band of the claims, from the line parameters *)
MinRatioSum ==
    RDiv(Float(width),
         RAdd(Float(line_height), RMul(ratio_delta, Float(line_height))))
MaxRatioSum ==
    RDiv(Float(width),
         RSub(Float(line_height), RMul(ratio_delta, Float(line_height))))
TargetRatio == Rat(width, line_height)

Prefix(s, k) == SubSeq(s, 1, k)

(* C1: once the selection loop of create_line is left, the selection's     *)
(* ratio sum lies in [minRatioSum, maxRatioSum]                            *)
C1_AcceptedInBand ==
    Accepted =>
        /\ RLeq(MinRatioSum, sum_ratios(selected_ratios))
        /\ RLeq(sum_ratios(selected_ratios), MaxRatioSum)

C1_Witness ==
    /\ Accepted
    /\ rejected > 0
    /\ Len(selected_ratios) >= 2
    /\ RLt(MinRatioSum, sum_ratios(selected_ratios))
    /\ RLt(sum_ratios(selected_ratios), MaxRatioSum)

(* C2: the corrected ratios of an accepted selection sum to the target     *)
(* line ratio width / height                                               *)
C2_CorrectedSum ==
    pc = "crop" => SumSeq(new_ratios) = TargetRatio

C2_Witness ==
    /\ pc = "crop"
    /\ Len(new_ratios) >= 2
    /\ sum_ratios(selected_ratios) # TargetRatio
    /\ selected_ratios[1].ratio # selected_ratios[2].ratio

(* C3: the image returned by collage has exactly the requested size        *)
C3_ExactSize ==
    pc = "done" => result = <<width, height>>

C3_Witness ==
    /\ pc = "done"
    /\ line_height * lines < height
    /\ drift
    /\ collage # <<width, height>>

(* C4: with an empty catalog create_line raises on its first draw: never   *)
(* more than one attempt, nothing selected, and the selection loop is left *)
(* by the error                                                            *)
C4_EmptyFailsFast ==
    /\ [](image_data = <<>> =>
            /\ iters <= 1
            /\ selected_ratios = <<>>
            /\ rejected = 0
            /\ ~Accepted
            /\ pc # "done")
    /\ [][image_data = <<>> /\ pc = "inner" =>
            pc' = "raised" /\ error' = "IndexError"]_vars

C4_Witness ==
    /\ image_data = <<>>
    /\ pc = "raised"
    /\ error = "IndexError"
    /\ iters = 1

(* C5: a one-image catalog whose ratio is inside the band is accepted in   *)
(* the first attempt: the selection is that image and the count is 1       *)
SingleInBand ==
    /\ Len(image_data) = 1
    /\ InLine
    /\ RLeq(MinRatioSum, image_data[1].ratio)
    /\ RLeq(image_data[1].ratio, MaxRatioSum)

C5_SingleImageOneAttempt ==
    SingleInBand =>
        /\ rejected = 0
        /\ iters <= 1
        /\ (pc = "outer" /\ iters = 1 => selected_ratios = image_data)
        /\ (Accepted => selected_ratios = image_data /\ iters = 1)

C5_Witness ==
    /\ SingleInBand
    /\ Accepted
    /\ image_data[1].ratio = MinRatioSum

(* C6: the attempt count of an accepted selection is the number of         *)
(* rejected selections plus one                                            *)
C6_AttemptCount ==
    Accepted => iters = rejected + 1

C6_Witness ==
    /\ Accepted
    /\ rejected = MaxIters - 1
    /\ Len(selected_ratios) >= 2

(* C7: center_crop returns an image of height h and width round(h * r),    *)
(* hence |width / h - r| <= 1 / (2h)                                       *)
C7_CropSize ==
    pc = "returned" =>
        LET out == resized_images[1]
            n == crop_ratio[1]
            d == crop_ratio[2]
            dev == Abs(out[1] * d - line_height * n)
        IN  /\ out[2] = line_height
            /\ 2 * dev <= d
            /\ (2 * dev = d => out[1] % 2 = 0)

C7_Witness ==
    /\ pc = "returned"
    /\ size[2] > 0
    /\ resized_images[1][1] * crop_ratio[2] < line_height * crop_ratio[1]

(* C8: with a single image whose ratio exceeds maxRatioSum the selection   *)
(* loop is never left: every attempt ends in a rejection, the loop test    *)
(* always finds the selection empty, and each pass raises the attempt      *)
(* count                                                                   *)
SingleTooWide ==
    /\ Len(image_data) = 1
    /\ InLine
    /\ RLt(MaxRatioSum, image_data[1].ratio)

C8_NeverTerminates ==
    /\ [](SingleTooWide =>
            /\ ~Accepted
            /\ line_n = 0
            /\ (pc = "outer" => selected_ratios = <<>> /\ rejected = iters)
            /\ (pc = "inner" => rejected = iters - 1))
    /\ [][SingleTooWide /\ pc = "inner" /\ selected_ratios # <<>> =>
            selected_ratios' = <<>> /\ rejected' = rejected + 1 /\ pc' = "outer"]_vars
    /\ [][SingleTooWide /\ pc = "outer" =>
            iters' = iters + 1 /\ pc' = "inner"]_vars

C8_Witness ==
    /\ SingleTooWide
    /\ pc = "outer"
    /\ rejected = MaxIters

(* C9: a selection is built one catalog entry at a time from empty, only   *)
(* while its sum is below minRatioSum: a tested or accepted selection is   *)
(* non-empty, reaches minRatioSum, and no proper prefix does               *)
Tested == pc = "inner" /\ ~RLt(sum_ratios(selected_ratios), MinRatioSum)

C9_SelectionShape ==
    InLine =>
        /\ \A k \in 0..(Len(selected_ratios) - 1) :
              RLt(sum_ratios(Prefix(selected_ratios, k)), MinRatioSum)
        /\ \A i \in 1..Len(selected_ratios) :
              \E k \in 1..Len(image_data) : selected_ratios[i] = image_data[k]
        /\ (Tested \/ Accepted =>
              /\ selected_ratios # <<>>
              /\ RLeq(MinRatioSum, sum_ratios(selected_ratios)))

C9_Witness ==
    /\ Accepted
    /\ Len(selected_ratios) >= 3
    /\ selected_ratios[1] = selected_ratios[2]
    /\ selected_ratios[1] # selected_ratios[3]

(* C10: the crop box center_crop computes for a corrected ratio has a      *)
(* non-negative offset, lies inside the source image and is non-empty      *)
C10_CropBoxValid ==
    size # None =>
        /\ 0 <= size[1] /\ size[1] < size[3] /\ size[3] <= img[1]
        /\ 0 <= size[2] /\ size[2] < size[4] /\ size[4] <= img[2]
====
